---- MODULE Spec2Model ----
(***************************************************************************)
(* The host side of LGMP (Looking Glass Memory Protocol), src/lgmp/src/    *)
(* host.c: the bump allocator over the shared region, the per-queue        *)
(* message ring, and the subscriber liveness / reaping state machine of    *)
(* lgmpHostProcess.                                                        *)
(*                                                                         *)
(* A subscriber bit mask (uint32_t) is modelled as the set of the ids      *)
(* whose bit is set; the 64-bit word hq->subs is the record                *)
(* [on |-> high 32 bits, bad |-> low 32 bits].  A uint32_t counter is      *)
(* held as its 32-bit pattern read as a two's-complement integer, so that  *)
(* + 1, - 1 and equality are those of arithmetic modulo 2^32 (0 - 1 is the *)
(* pattern of 0xFFFFFFFF); the model's guards keep every counter far from  *)
(* the other wrap at 2^31.                                                 *)
(***************************************************************************)
EXTENDS Integers, FiniteSets, Sequences, TLC

(***************************************************************************)
(* Program constants.                                                      *)
(***************************************************************************)
LGMP_MAX_MESSAGE_AGE == 150
LGMP_MAX_QUEUE_TIMEOUT == 10000
\* the loops "for(id = 0; id < 32; ++id)" of lgmpHostProcess
LGMP_SUB_BITS == 32
\* lgmp.h / headers.h are not part of the sources at hand
LGMP_MAX_QUEUES == 5
SizeofHeader == 184
SizeofHeaderMessage == 16

LGMP_OK == "LGMP_OK"
LGMP_ERR_NO_MEM == "LGMP_ERR_NO_MEM"
LGMP_ERR_NO_SHARED_MEM == "LGMP_ERR_NO_SHARED_MEM"
LGMP_ERR_HOST_STARTED == "LGMP_ERR_HOST_STARTED"
LGMP_ERR_NO_QUEUES == "LGMP_ERR_NO_QUEUES"
LGMP_ERR_QUEUE_FULL == "LGMP_ERR_QUEUE_FULL"
LGMP_ERR_CLOCK_FAILURE == "LGMP_ERR_CLOCK_FAILURE"
LGMP_ERR_INVALID_SIZE == "LGMP_ERR_INVALID_SIZE"
\* an int that is none of the LGMP_STATUS values host.c names
LGMP_STATUS_OTHER == "LGMP_STATUS_OTHER"
\* the step is not the return of a function that returns a status
NoStatus == "none"
\* the caller's PLGMPHost when it points to no host
NULL == "NULL"

(***************************************************************************)
(* Bounds of the model.                                                    *)
(***************************************************************************)
\* the capacity addQueue is asked for
MaxCapacity == 2
\* the subscribers that take part have the ids 0..MaxSubId-1 and 31
MaxSubId == 1
\* the clock is advanced at most MaxAdvances times
MaxAdvances == 2
\* lgmpHostProcess is called at most MaxHeartbeat times
MaxHeartbeat == 2
\* at most MaxMems memory handles are live at once
MaxMems == 1
\* lgmpHostMemAlloc succeeds at most MaxAllocs times
MaxAllocs == 3
\* at most MaxLeaked host structures with queue handles are left behind by
\* later calls of lgmpHostInit
MaxLeaked == 1
\* a write cursor that nothing wraps (numMessages = 0) is followed up to slot
\* MaxCursor
MaxCursor == 4
\* rand() returns a value in 0..MaxRand
MaxRand == 1
\* lgmpHostInit is followed through at most MaxRandCalls calls of rand()
MaxRandCalls == 2

SubIds == 0 .. (LGMP_SUB_BITS - 1)
ActiveSubIds == (0 .. (MaxSubId - 1)) \cup {LGMP_SUB_BITS - 1}
\* a region with room for one queue of capacity cap and one payload
RegionSize(cap) == SizeofHeader + (cap + 2) * SizeofHeaderMessage
PayloadSize == SizeofHeaderMessage
QueueIDs == {0}
UDatas == {7}
\* the steps of the monotonic clock between two operations: up to the
\* maximum message age and just past it
Deltas == {LGMP_MAX_MESSAGE_AGE, LGMP_MAX_MESSAGE_AGE + 1}
\* past the maximum message age, up to the queue timeout and just past it
ReapDeltas == {LGMP_MAX_MESSAGE_AGE + 1, LGMP_MAX_QUEUE_TIMEOUT,
               LGMP_MAX_QUEUE_TIMEOUT + 1}
\* what a caller can find in the return register when lgmpHostPost runs
\* off its end without a return statement (line 289): any int, be it the
\* value of a status or not
PostFallthrough ==
  {LGMP_OK, LGMP_ERR_NO_MEM, LGMP_ERR_NO_SHARED_MEM, LGMP_ERR_HOST_STARTED,
   LGMP_ERR_NO_QUEUES, LGMP_ERR_QUEUE_FULL, LGMP_ERR_CLOCK_FAILURE,
   LGMP_ERR_INVALID_SIZE, LGMP_STATUS_OTHER}
\* the 32-bit pattern of 2^32 - 1, the largest uint32_t
UINT32_MAX == -1
\* what rand() returns, and the values the successive calls return
Rands == 0 .. MaxRand
RandSeqs == UNION {[1 .. n -> Rands] : n \in 1 .. MaxRandCalls}
\* what the region can hold as sessionID before lgmpHostInit
PriorIDs == 0 .. (MaxRand + 1)

VARIABLES
  clock,      \* lgmpGetClockMS()
  handle,     \* the caller's PLGMPHost: *result of lgmpHostInit, *host of
              \* lgmpHostFree
  freed,      \* the host structure, which the queue handles point into, has
              \* been passed to free()
  size,       \* host->size
  avail,      \* host->avail
  nextFree,   \* host->nextFree
  started,    \* host->started
  sessionID,  \* host->header->sessionID
  carved,     \* history: the byte ranges handed out since lgmpHostInit, in
              \* the order of the calls
  initHist,   \* history: the sessionID and the queue count lgmpHostInit
              \* found, and the values rand() returned to it
  heartbeat,  \* host->header->heartbeat
  numQueues,  \* host->header->numQueues
  hqs,        \* host->header->queues[i], the shared descriptors that have
              \* been written
  queues,     \* host->queues[i], the host-local queue state, of the host
              \* structure of the last successful lgmpHostInit
  leaked,     \* host->queues[i] of the host structures that a later
              \* lgmpHostInit left behind without a free(): the queue
              \* handles into them stay valid
  slots,      \* the message slots of the region that have been written, by
              \* their byte offset
  mems,       \* the live LGMPMemory handles
  result,     \* the status the step returned, when it is the return of a
              \* host function that returns one
  advances,   \* how many times the clock was advanced
  postedAt,   \* history: when the message in a slot was posted
  missed,     \* history: the ids that left a pending bit set for > 150 ms
  flaggedAt,  \* history: when an id was last flagged bad
  tick,       \* where a call of lgmpHostProcess stands, and its locals
  sect,       \* history: the queue as the tick locked it, and what the
              \* subscribers did to it since
  call        \* history: the operation that ran last, and its queue

vars == <<clock, handle, freed, size, avail, nextFree, started, sessionID, carved, initHist, heartbeat, numQueues, hqs,
          queues, leaked, slots, mems, result, advances, postedAt, missed,
          flaggedAt, tick, sect, call>>

sessVars == <<sessionID, initHist>>
hostFields == <<size, avail, nextFree, started, carved, sessVars>>
hostVars == <<handle, freed, hostFields>>
histVars == <<postedAt, missed, flaggedAt>>
concVars == <<tick, sect>>

QueueIdx == 0 .. (numQueues - 1)

(***************************************************************************)
(* The LGMP_SUBS_* macros on the subscriber word.                          *)
(***************************************************************************)
LGMP_SUBS_ON(x) == x.on
LGMP_SUBS_BAD(x) == x.bad
LGMP_SUBS_OR_BAD(x, bad) == [x EXCEPT !.bad = @ \cup bad]
LGMP_SUBS_CLEAR(x, cl) == [on |-> x.on \ cl, bad |-> x.bad \ cl]
LGMP_SUBS_SET(x, st) == [x EXCEPT !.on = @ \cup st]

NoSubs == [on |-> {}, bad |-> {}]
\* the locals of lgmpHostProcess: i, now, subs, pend, newBadSubs
IdleTick ==
  [pc |-> "idle", i |-> 0, now |-> 0, subs |-> NoSubs, pend |-> {},
   newBadSubs |-> {}]
\* the host application calls the host's functions one after the other
HostIdle == tick.pc = "idle"
NoSection == [pre |-> << >>, ops |-> {}]
Called(op, q) == [op |-> op, q |-> q]
\* the bytes lo .. hi - 1, handed out to a queue or to a payload
Range(kind, lo, hi) == [kind |-> kind, lo |-> lo, hi |-> hi]
EmptySlot == [udata |-> 0, size |-> 0, offset |-> 0, pendingSubs |-> {}]
\* what the region holds where no slot has been written: zero bytes, as the
\* shared memory is handed to the first lgmpHostInit
RegionFill == EmptySlot
\* the slot at a byte offset of the region
SlotAt(offset) == IF offset \in DOMAIN slots THEN slots[offset] ELSE RegionFill
\* messages[s] of lines 158-160 and 271-274: mem + hq->messagesOffset, indexed
SlotOffset(hq, s) == hq.messagesOffset + SizeofHeaderMessage * s
Max(a, b) == IF a >= b THEN a ELSE b
\* messages[s] of each queue of the header, as the region holds it (lines 160
\* and 274): the slots of its array and, where nothing wraps the write cursor
\* (numMessages = 0), the slots behind the array up to the cursor
messages ==
  [q \in QueueIdx |->
     [s \in 0 .. Max(hqs[q].numMessages - 1, queues[q].position) |->
        SlotAt(SlotOffset(hqs[q], s))]]
\* queue->timeout[id] as malloc hands it out (line 61, no memset) and
\* lgmpHostAddQueue leaves it: a word that holds anything.  No timeout the
\* code computes is negative
Indeterminate == -1
\* what a read of such a word can give, as far as the comparison of line 202
\* tells values apart: a time before every reading of the clock, and one
\* after
IndeterminateReads == {0, 2147483647}

(***************************************************************************)
(* lgmpHostInit: the state after a successful initialisation.              *)
(***************************************************************************)
\* mutant: the session identifier is drawn once, whatever the region held
InitSessionIDOnce(prior, rands) ==
  [id |-> Head(rands), done |-> TRUE, used |-> 1]

\* lines 76-78, given the values the successive calls of rand() return: the
\* sessionID the loop leaves, whether the loop was left, and the number of
\* calls of rand() it made
RECURSIVE InitSessionLoop(_, _, _, _)
InitSessionLoop(prior, current, rands, used) ==
  IF prior # current
  THEN [id |-> current, done |-> TRUE, used |-> used]
  ELSE IF rands = << >>
  THEN [id |-> current, done |-> FALSE, used |-> used]
  ELSE InitSessionLoop(prior, Head(rands), Tail(rands), used + 1)

InitSessionID(prior, rands) == InitSessionLoop(prior, prior, rands, 0)

\* the header's sessionID after an initialisation of a region that held prior
InitSession(prior, rands) ==
  /\ InitSessionID(prior, rands).done
  /\ InitSessionID(prior, rands).used = Len(rands)
  /\ sessionID = InitSessionID(prior, rands).id
  /\ initHist = [prior |-> prior, rands |-> rands, numQueues |-> 0]

\* the host structures left behind when lgmpHostInit allocates a new one
\* (line 61): the one in use, unless it was freed or no queue handle points
\* into it
InitLeaked ==
  IF freed \/ queues = << >> THEN leaked ELSE Append(leaked, queues)

\* lgmpHostInit on the region the host already runs on.  Line 52 clears the
\* caller's pointer before any check.  The call frees nothing and writes the
\* sessionID, the heartbeat and the queue count of the header only: the host
\* structure in use, the queue and the memory handles, the queue descriptors
\* and the slots of the region are left as they are, and queues[] of the new
\* structure is not initialised
lgmpHostInit(regionSize, mallocOk, rands) ==
  IF clock = 0
  THEN /\ result' = LGMP_ERR_CLOCK_FAILURE
       /\ handle' = NULL
       /\ UNCHANGED <<freed, hostFields, heartbeat, numQueues, hqs, queues, leaked, slots, mems,
                      histVars>>
  ELSE IF regionSize < SizeofHeader
  THEN /\ result' = LGMP_ERR_INVALID_SIZE
       /\ handle' = NULL
       /\ UNCHANGED <<freed, hostFields, heartbeat, numQueues, hqs, queues, leaked, slots, mems,
                      histVars>>
  ELSE IF ~mallocOk
  THEN /\ result' = LGMP_ERR_NO_MEM
       /\ handle' = NULL
       /\ UNCHANGED <<freed, hostFields, heartbeat, numQueues, hqs, queues, leaked, slots, mems,
                      histVars>>
  ELSE /\ InitSessionID(sessionID, rands).done
       /\ InitSessionID(sessionID, rands).used = Len(rands)
       /\ sessionID' = InitSessionID(sessionID, rands).id
       /\ initHist' = [prior |-> sessionID, rands |-> rands,
                        numQueues |-> numQueues]
       /\ handle' = "host"
       /\ freed' = FALSE
       /\ size' = regionSize
       /\ avail' = regionSize - SizeofHeader
       /\ nextFree' = SizeofHeader
       /\ carved' = << >>
       /\ started' = FALSE
       /\ heartbeat' = 0
       /\ numQueues' = 0
       /\ leaked' = InitLeaked
       /\ queues' = << >>
       /\ postedAt' = << >>
       /\ missed' = << >>
       /\ flaggedAt' = << >>
       /\ result' = LGMP_OK
       /\ UNCHANGED <<mems, hqs, slots>>

HostInit(regionSizes, mallocOks) ==
  \E regionSize \in regionSizes, mallocOk \in mallocOks, rands \in RandSeqs :
    /\ HostIdle
    /\ (regionSize >= SizeofHeader /\ mallocOk) => Len(InitLeaked) <= MaxLeaked
    /\ lgmpHostInit(regionSize, mallocOk, rands)
    /\ call' = Called("lgmpHostInit", 0)
    /\ UNCHANGED <<concVars, clock, advances>>

\* lines 89-97: the host structure is freed and the caller's pointer cleared;
\* the header in the region and the LGMPMemory handles are left alone, and
\* the fields of the freed structure are not read again
lgmpHostFree ==
  IF handle = NULL
  THEN UNCHANGED <<handle, freed>>
  ELSE handle' = NULL /\ freed' = TRUE

HostFree ==
  /\ HostIdle
  /\ lgmpHostFree
  /\ call' = Called("lgmpHostFree", 0)
  /\ result' = NoStatus
  /\ UNCHANGED <<concVars, clock, hostFields, heartbeat, numQueues, hqs, queues, leaked,
                 slots, mems, advances, histVars>>

\* lines 67-84: the host and the header after lgmpHostInit on a region whose
\* slots hold regionSlots
InitHostOn(regionSize, regionSlots) ==
  /\ clock = 1
  /\ handle = "host"
  /\ freed = FALSE
  /\ size = regionSize
  /\ avail = regionSize - SizeofHeader
  /\ nextFree = SizeofHeader
  /\ carved = << >>
  /\ started = FALSE
  /\ heartbeat = 0
  /\ numQueues = 0
  /\ hqs = << >>
  /\ queues = << >>
  /\ leaked = << >>
  /\ slots = regionSlots
  /\ mems = << >>
  /\ result = LGMP_OK
  /\ advances = 0
  /\ postedAt = << >>
  /\ missed = << >>
  /\ flaggedAt = << >>
  /\ tick = IdleTick
  /\ sect = NoSection
  /\ call = Called("lgmpHostInit", 0)

\* the same on a region of zero bytes
InitHost(regionSize) == InitHostOn(regionSize, << >>)

\* a zeroed region, and rand() returns 1
InitRegion(regionSize) ==
  /\ InitSession(0, <<1>>)
  /\ InitHost(regionSize)

(***************************************************************************)
(* lgmpHostAddQueue                                                        *)
(***************************************************************************)
AddQueueNumMessages(numMessages) == numMessages + 1

AddQueueNeeded(numMessages) == SizeofHeaderMessage * AddQueueNumMessages(numMessages)

\* lines 121-126: timeout[] is not written
NewHQueue(index) ==
  [index |-> index, position |-> 0, count |-> 0, start |-> 0,
   msgTimeout |-> clock + LGMP_MAX_MESSAGE_AGE,
   timeout |-> [id \in SubIds |-> Indeterminate]]

NewHeaderQueue(queueID, numMessages) ==
  [queueID |-> queueID, numMessages |-> AddQueueNumMessages(numMessages),
   lock |-> FALSE, subs |-> NoSubs, position |-> 0,
   messagesOffset |-> nextFree]

Extend(f, i, v) == [j \in (DOMAIN f) \cup {i} |-> IF j = i THEN v ELSE f[j]]

\* mutant: the limit is tested one queue late
AddQueueNoQueuesLate == numQueues = LGMP_MAX_QUEUES + 1

\* line 108
AddQueueNoQueues == numQueues = LGMP_MAX_QUEUES

\* lines 104-139: the descriptor and the host-local state of the new queue
\* are written, its slots are not
lgmpHostAddQueue(queueID, numMessages) ==
  IF started
  THEN /\ result' = LGMP_ERR_HOST_STARTED
       /\ UNCHANGED <<hostVars, numQueues, hqs, queues, leaked, slots, histVars>>
  ELSE IF AddQueueNoQueues
  THEN /\ result' = LGMP_ERR_NO_QUEUES
       /\ UNCHANGED <<hostVars, numQueues, hqs, queues, leaked, slots, histVars>>
  ELSE IF avail < AddQueueNeeded(numMessages)
  THEN /\ result' = LGMP_ERR_NO_SHARED_MEM
       /\ UNCHANGED <<hostVars, numQueues, hqs, queues, leaked, slots, histVars>>
  ELSE /\ queues' = Extend(queues, numQueues, NewHQueue(numQueues))
       /\ hqs' = Extend(hqs, numQueues, NewHeaderQueue(queueID, numMessages))
       /\ postedAt' = Extend(postedAt, numQueues,
            [s \in 0 .. (AddQueueNumMessages(numMessages) - 1) |-> 0])
       /\ missed' = Extend(missed, numQueues, {})
       /\ flaggedAt' = Extend(flaggedAt, numQueues, [id \in SubIds |-> 0])
       /\ numQueues' = numQueues + 1
       /\ avail' = avail - AddQueueNeeded(numMessages)
       /\ nextFree' = nextFree + AddQueueNeeded(numMessages)
       /\ carved' = Append(carved, Range("queue", nextFree,
                              nextFree + AddQueueNeeded(numMessages)))
       /\ result' = LGMP_OK
       /\ UNCHANGED <<handle, freed, size, started, sessVars, leaked, slots>>

\* queues are created at setup, before the first maintenance tick
SetupPhase == heartbeat = 0 /\ advances = 0

\* a call of lgmpHostAddQueue for numMessages messages
AddQueueFor(queueID, numMessages) ==
  /\ SetupPhase
  /\ HostIdle
  /\ handle # NULL
  /\ lgmpHostAddQueue(queueID, numMessages)
  /\ call' = Called("lgmpHostAddQueue", numQueues)
  /\ UNCHANGED <<concVars, clock, heartbeat, mems, advances>>

AddQueue(capacities) ==
  \E queueID \in QueueIDs, numMessages \in capacities :
    AddQueueFor(queueID, numMessages)

(***************************************************************************)
(* lgmpHostMemAlloc, lgmpHostMemFree                                       *)
(***************************************************************************)
NewMemory(sz) == [offset |-> nextFree, size |-> sz]

\* mutant: the allocation is not taken off the available bytes
MemAllocAvailKept(sz) == avail

\* line 234
MemAllocAvail(sz) == avail - sz

\* mutant: the free offset stays where it is
MemAllocNextFreeKept(sz) == nextFree

\* line 233
MemAllocNextFree(sz) == nextFree + sz

\* the payloads handed out so far
Allocs == {i \in DOMAIN carved : carved[i].kind = "payload"}

lgmpHostMemAlloc(sz, mallocOk) ==
  IF sz > avail
  THEN /\ result' = LGMP_ERR_NO_SHARED_MEM
       /\ UNCHANGED <<hostVars, mems>>
  ELSE IF ~mallocOk
  THEN /\ result' = LGMP_ERR_NO_MEM
       /\ UNCHANGED <<hostVars, mems>>
  ELSE /\ mems' = Append(mems, NewMemory(sz))
       /\ nextFree' = MemAllocNextFree(sz)
       /\ avail' = MemAllocAvail(sz)
       /\ carved' = Append(carved, Range("payload", NewMemory(sz).offset,
                              NewMemory(sz).offset + NewMemory(sz).size))
       /\ result' = LGMP_OK
       /\ UNCHANGED <<handle, freed, size, started, sessVars>>

MemAlloc(sizes, mallocOks) ==
  \E sz \in sizes, mallocOk \in mallocOks :
    /\ HostIdle
    /\ handle # NULL
    /\ mallocOk => Len(mems) < MaxMems
    /\ Cardinality(Allocs) < MaxAllocs
    /\ lgmpHostMemAlloc(sz, mallocOk)
    /\ call' = Called("lgmpHostMemAlloc", 0)
    /\ UNCHANGED <<concVars, clock, heartbeat, numQueues, hqs, queues, leaked, slots,
                   advances, histVars>>

RemoveAt(s, i) == [j \in 1 .. (Len(s) - 1) |-> IF j < i THEN s[j] ELSE s[j + 1]]

lgmpHostMemFree(m) ==
  /\ mems' = RemoveAt(mems, m)
  /\ result' = NoStatus
  /\ UNCHANGED hostVars

MemFree ==
  \E m \in DOMAIN mems :
    /\ HostIdle
    /\ lgmpHostMemFree(m)
    /\ call' = Called("lgmpHostMemFree", 0)
    /\ UNCHANGED <<concVars, clock, heartbeat, numQueues, hqs, queues, leaked, slots,
                   advances, histVars>>

(***************************************************************************)
(* lgmpHostPost                                                            *)
(***************************************************************************)
\* mutant: the bad subscribers are not taken out of the recipients
PostPendAllSubscribed(subs) == LGMP_SUBS_ON(subs)

PostPend(subs) == LGMP_SUBS_ON(subs) \ LGMP_SUBS_BAD(subs)

\* mutant: only an empty subscribed mask counts as nobody listening
PostNobodySubscribed(subs) == LGMP_SUBS_ON(subs) = {}

\* line 264
PostNobody(subs) == PostPend(subs) = {}

\* mutant: the ring is full only when every slot, the sentinel too, is taken
PostIsFullAtSlots(queue, hq) == queue.count = hq.numMessages

\* line 268
PostIsFull(queue, hq) == queue.count = hq.numMessages - 1

PostSlot(udata, payload, pend) ==
  [udata |-> udata, size |-> payload.size, offset |-> payload.offset,
   pendingSubs |-> pend]

\* mutant: the write cursor wraps one slot early
PostQueueWrapEarly(queue, hq) ==
  [queue EXCEPT
     !.count = @ + 1,
     !.msgTimeout = IF queue.count = 0 THEN clock + LGMP_MAX_MESSAGE_AGE ELSE @,
     !.position = IF @ + 2 >= hq.numMessages THEN 0 ELSE @ + 1]

PostQueue(queue, hq) ==
  [queue EXCEPT
     !.count = @ + 1,
     !.msgTimeout = IF queue.count = 0 THEN clock + LGMP_MAX_MESSAGE_AGE ELSE @,
     !.position = IF @ + 1 = hq.numMessages THEN 0 ELSE @ + 1]

\* queues[] of the host structure a queue handle points into: h = 0 is the
\* structure of the last successful lgmpHostInit, h > 0 one left behind
HostQueues(h) == IF h = 0 THEN queues ELSE leaked[h]

\* the history of the slots of the queue in use at index i
PostedAt(h, i, s) ==
  IF i \in DOMAIN postedAt /\ (h = 0 \/ s \in DOMAIN postedAt[i])
  THEN [postedAt EXCEPT ![i] = Extend(@, s, clock)]
  ELSE postedAt

\* lines 257-288, on the queue handle &host->queues[q] of the structure h: the
\* descriptor is the one the header holds at queue->index now
lgmpHostPost(h, q, udata, payload, ret) ==
  LET queue == HostQueues(h)[q]
      hq == hqs[queue.index]
      pend == PostPend(hq.subs)
  IN IF PostNobody(hq.subs)
     THEN /\ result' = LGMP_OK
          /\ UNCHANGED <<hqs, queues, leaked, slots, postedAt>>
     ELSE IF PostIsFull(queue, hq)
     THEN /\ result' = LGMP_ERR_QUEUE_FULL
          /\ UNCHANGED <<hqs, queues, leaked, slots, postedAt>>
     ELSE /\ slots' = Extend(slots, SlotOffset(hq, queue.position),
                             PostSlot(udata, payload, pend))
          /\ IF h = 0
             THEN /\ queues' = [queues EXCEPT ![q] = PostQueue(queue, hq)]
                  /\ UNCHANGED leaked
             ELSE /\ leaked' = [leaked EXCEPT ![h][q] = PostQueue(queue, hq)]
                  /\ UNCHANGED queues
          /\ hqs' = [hqs EXCEPT
                       ![queue.index].position = PostQueue(queue, hq).position]
          /\ postedAt' = PostedAt(h, queue.index, queue.position)
          /\ result' = ret

\* a call of lgmpHostPost with the queue handle q of the host structure h; a
\* handle into a freed structure is not used
PostVia(h, q) ==
  \E udata \in UDatas, m \in DOMAIN mems, ret \in PostFallthrough :
    /\ HostIdle
    /\ h = 0 => ~freed
    /\ HostQueues(h)[q].position < MaxCursor
    /\ lgmpHostPost(h, q, udata, mems[m], ret)
    /\ call' = Called("lgmpHostPost", q)
    /\ UNCHANGED <<concVars, clock, hostVars, heartbeat, numQueues, mems, advances,
                   missed, flaggedAt>>

\* a call of lgmpHostPost on queue q of the host in use
PostOn(q) == PostVia(0, q)

Post == \E q \in DOMAIN queues : PostOn(q)

\* a call of lgmpHostPost with a queue handle of an earlier lgmpHostInit
PostLeaked == \E h \in DOMAIN leaked : \E q \in DOMAIN leaked[h] : PostVia(h, q)

(***************************************************************************)
(* lgmpHostProcess, one queue                                              *)
(***************************************************************************)
\* lines 163-164: the loads under the lock
ProcessLoad(hq, msg) == [subs |-> hq.subs, pend |-> msg.pendingSubs]

\* mutant: the head expires at its deadline, not after it
ProcessExpiredAtDeadline(subs, pend, queue, now) ==
  (pend \ LGMP_SUBS_BAD(subs)) # {} /\ now >= queue.msgTimeout

\* line 165
ProcessExpired(subs, pend, queue, now) ==
  (pend \ LGMP_SUBS_BAD(subs)) # {} /\ now > queue.msgTimeout

\* mutant: every subscriber that is not bad is flagged, pending or not
ProcessFlagAllSubscribed(subs, pend, queue, now) ==
  IF ProcessExpired(subs, pend, queue, now)
  THEN LET newBadSubs == LGMP_SUBS_ON(subs) \ LGMP_SUBS_BAD(subs)
       IN [subs |-> LGMP_SUBS_OR_BAD(subs, newBadSubs),
           pend |-> {},
           timeout |-> [id \in SubIds |->
                          IF id \in newBadSubs
                          THEN now + LGMP_MAX_QUEUE_TIMEOUT
                          ELSE queue.timeout[id]],
           flagged |-> newBadSubs,
           cleared |-> TRUE]
  ELSE [subs |-> subs, pend |-> pend, timeout |-> queue.timeout,
        flagged |-> {}, cleared |-> FALSE]

\* lines 165-183: flag the lagging subscribers, force-clear the head
ProcessFlag(subs, pend, queue, now) ==
  IF ProcessExpired(subs, pend, queue, now)
  THEN LET newBadSubs == pend \ LGMP_SUBS_BAD(subs)
       IN [subs |-> LGMP_SUBS_OR_BAD(subs, newBadSubs),
           pend |-> {},
           timeout |-> [id \in SubIds |->
                          IF id \in newBadSubs
                          THEN now + LGMP_MAX_QUEUE_TIMEOUT
                          ELSE queue.timeout[id]],
           flagged |-> newBadSubs,
           cleared |-> TRUE]
  ELSE [subs |-> subs, pend |-> pend, timeout |-> queue.timeout,
        flagged |-> {}, cleared |-> FALSE]

\* line 181, the host's only store to pendingSubs: what the slot holds after
\* lines 165-183, given what it holds now
ProcessStorePend(f, current) ==
  IF f.cleared THEN {} ELSE current

\* mutant: the head completes at every tick
ProcessFinishedAlways(subs, pend) == TRUE

\* mutant: the bits of the bad subscribers keep the head from completing
ProcessFinishedAllClear(subs, pend) == pend = {}

\* line 185
ProcessFinished(subs, pend) == (pend \ LGMP_SUBS_BAD(subs)) = {}

\* lines 185-194: complete the head message
ProcessComplete(subs, pend, queue, numMessages, now) ==
  IF ProcessFinished(subs, pend)
  THEN [queue EXCEPT
          !.start = IF @ + 1 = numMessages THEN 0 ELSE @ + 1,
          !.count = @ - 1,
          !.msgTimeout = IF queue.count # 0 THEN now + LGMP_MAX_MESSAGE_AGE ELSE @]
  ELSE queue

\* mutant: a bad subscriber is reaped at its deadline, not after it
ProcessReapAtDeadline(subs, queue, now) ==
  IF LGMP_SUBS_ON(subs) # {}
  THEN LGMP_SUBS_CLEAR(subs,
         {id \in SubIds : id \in LGMP_SUBS_BAD(subs) /\ now >= queue.timeout[id]})
  ELSE subs

\* lines 196-206: the subscribers to reap
ProcessReap(subs, queue, now) ==
  IF LGMP_SUBS_ON(subs) # {}
  THEN LGMP_SUBS_CLEAR(subs,
         {id \in SubIds : id \in LGMP_SUBS_BAD(subs) /\ now > queue.timeout[id]})
  ELSE subs

\* the words of queue->timeout[] that line 202 reads and no tick has written
ProcessUnwritten(subs, queue) ==
  IF LGMP_SUBS_ON(subs) # {}
  THEN {id \in LGMP_SUBS_BAD(subs) : queue.timeout[id] = Indeterminate}
  ELSE {}

\* queue->timeout[] as line 202 can read it
ProcessTimeouts(subs, queue) ==
  {[id \in SubIds |-> IF id \in DOMAIN r THEN r[id] ELSE queue.timeout[id]] :
     r \in [ProcessUnwritten(subs, queue) -> IndeterminateReads]}

\* lines 151-209 for one queue when no subscriber runs in between: the
\* outcomes of the section, one for each way line 202 can read timeout[]
ProcessQueue(hq, queue, msgs, now) ==
  IF queue.count = 0
  THEN {[hq |-> hq, queue |-> queue, msgs |-> msgs, flagged |-> {}]}
  ELSE LET l == ProcessLoad(hq, msgs[queue.start])
           f == ProcessFlag(l.subs, l.pend, queue, now)
           q1 == [queue EXCEPT !.timeout = f.timeout]
           q2 == ProcessComplete(f.subs, f.pend, q1, hq.numMessages, now)
       IN {[hq |-> [hq EXCEPT !.subs =
                      ProcessReap(f.subs, [q2 EXCEPT !.timeout = read], now)],
            queue |-> q2,
            msgs |-> [msgs EXCEPT ![queue.start].pendingSubs = ProcessStorePend(f, @)],
            flagged |-> f.flagged] : read \in ProcessTimeouts(f.subs, q2)}

(***************************************************************************)
(* lgmpHostProcess, one access to the shared memory at a time: the          *)
(* subscribers take no lock and run between any two of the accesses of      *)
(* lines 163, 164, 181 and 208.                                             *)
(***************************************************************************)
\* lines 145-146
ProcessEnter(maxBeat) ==
  /\ tick.pc = "idle"
  /\ handle # NULL
  /\ heartbeat < maxBeat
  /\ heartbeat' = heartbeat + 1
  /\ tick' = [IdleTick EXCEPT !.pc = "queue", !.now = clock]
  /\ call' = Called("lgmpHostProcess", 0)
  /\ result' = NoStatus
  /\ UNCHANGED <<clock, hostVars, numQueues, hqs, queues, leaked, slots, mems,
                 advances, histVars, sect>>

\* line 149, and line 212 at the end of the loop
ProcessLeave ==
  /\ tick.pc = "queue"
  /\ tick.i = numQueues
  /\ tick' = IdleTick
  /\ result' = LGMP_OK
  /\ UNCHANGED <<call, clock, hostVars, heartbeat, numQueues, hqs, queues, leaked, slots,
                 mems, advances, histVars, sect>>

\* lines 151-155: a queue without outstanding message is passed over
ProcessSkip ==
  /\ tick.pc = "queue"
  /\ tick.i < numQueues
  /\ queues[tick.i].count = 0
  /\ tick' = [tick EXCEPT !.i = @ + 1]
  /\ result' = NoStatus
  /\ UNCHANGED <<call, clock, hostVars, heartbeat, numQueues, hqs, queues, leaked, slots,
                 mems, advances, histVars, sect>>

\* lines 162-163: take the lock, load the subscriber word
ProcessLockLoadSubs ==
  /\ tick.pc = "queue"
  /\ tick.i < numQueues
  /\ queues[tick.i].count # 0
  /\ ~hqs[tick.i].lock
  /\ hqs' = [hqs EXCEPT ![tick.i].lock = TRUE]
  /\ tick' = [tick EXCEPT !.pc = "loadPend", !.subs = hqs[tick.i].subs]
  /\ sect' = [pre |-> [hq |-> hqs[tick.i], queue |-> queues[tick.i],
                       msgs |-> messages[tick.i]],
              ops |-> {}]
  /\ result' = NoStatus
  /\ UNCHANGED <<call, clock, hostVars, heartbeat, numQueues, queues, leaked, slots, mems,
                 advances, histVars>>

\* line 164
ProcessLoadPend ==
  /\ tick.pc = "loadPend"
  /\ tick' = [tick EXCEPT
                !.pc = "flag",
                !.pend = ProcessLoad(hqs[tick.i],
                           messages[tick.i][queues[tick.i].start]).pend]
  /\ result' = NoStatus
  /\ UNCHANGED <<call, clock, hostVars, heartbeat, numQueues, hqs, queues, leaked, slots,
                 mems, advances, histVars, sect>>

\* lines 165-183, with the store of line 181
ProcessFlagStore ==
  /\ tick.pc = "flag"
  /\ LET i == tick.i
         f == ProcessFlag(tick.subs, tick.pend, queues[i], tick.now)
     IN /\ queues' = [queues EXCEPT ![i].timeout = f.timeout]
        /\ slots' = [slots EXCEPT
              ![SlotOffset(hqs[i], queues[i].start)].pendingSubs =
                 ProcessStorePend(f, @)]
        /\ flaggedAt' = [flaggedAt EXCEPT ![i] = [id \in SubIds |->
              IF id \in f.flagged THEN tick.now ELSE @[id]]]
        /\ tick' = [tick EXCEPT !.pc = "store", !.subs = f.subs, !.pend = f.pend,
                                !.newBadSubs = f.flagged]
  /\ result' = NoStatus
  /\ UNCHANGED <<call, clock, hostVars, heartbeat, numQueues, hqs, leaked, mems,
                 advances, postedAt, missed, sect>>

\* lines 185-208, with the store of line 208
ProcessStoreSubs ==
  /\ tick.pc = "store"
  /\ LET i == tick.i
         q2 == ProcessComplete(tick.subs, tick.pend, queues[i],
                               hqs[i].numMessages, tick.now)
     IN \E read \in ProcessTimeouts(tick.subs, q2) :
          /\ queues' = [queues EXCEPT ![i] = q2]
          /\ hqs' = [hqs EXCEPT ![i].subs =
                       ProcessReap(tick.subs, [q2 EXCEPT !.timeout = read],
                                   tick.now)]
          /\ tick' = [tick EXCEPT !.pc = "unlock"]
  /\ result' = NoStatus
  /\ UNCHANGED <<call, clock, hostVars, heartbeat, numQueues, leaked, slots, mems,
                 advances, histVars, sect>>

\* line 209, and on to the next queue
ProcessUnlock ==
  /\ tick.pc = "unlock"
  /\ hqs' = [hqs EXCEPT ![tick.i].lock = FALSE]
  /\ tick' = [tick EXCEPT !.pc = "queue", !.i = @ + 1, !.subs = NoSubs,
                          !.pend = {}, !.newBadSubs = {}]
  /\ sect' = NoSection
  /\ result' = NoStatus
  /\ UNCHANGED <<call, clock, hostVars, heartbeat, numQueues, queues, leaked, slots, mems,
                 advances, histVars>>

\* the steps of a call of lgmpHostProcess that has been entered
ProcessStep ==
  \/ ProcessLeave
  \/ ProcessSkip
  \/ ProcessLockLoadSubs
  \/ ProcessLoadPend
  \/ ProcessFlagStore
  \/ ProcessStoreSubs
  \/ ProcessUnlock

\* a call of lgmpHostProcess, step by step
Process(maxBeat) ==
  \/ ProcessEnter(maxBeat)
  \/ ProcessStep

(***************************************************************************)
(* The subscribers (client side), which take no lock: a subscriber sets    *)
(* its bit in the subscribed mask, and clears its bit in the pending mask  *)
(* of a message.                                                           *)
(***************************************************************************)
\* the slots of the outstanding messages of a queue
\* lines 188 and 285: a cursor moves one slot on, and back to slot 0 when it
\* reaches numMessages
NextCursor(n, s) == IF s + 1 = n THEN 0 ELSE s + 1

\* the cursor s after k such steps: a cursor at or behind numMessages is
\* never wrapped
CursorAfter(n, s, k) == IF s < n THEN (s + k) % n ELSE s + k

\* the number of steps that take the cursor from to the cursor to
RingCount(n, from, to) == IF to >= from THEN to - from ELSE to - from + n

Outstanding(queue, hq) ==
  {CursorAfter(hq.numMessages, queue.start, k) : k \in 0 .. (queue.count - 1)}

ClientSubscribe(hq, id) == [hq EXCEPT !.subs = LGMP_SUBS_SET(@, {id})]

ClientAck(msg, id) == [msg EXCEPT !.pendingSubs = @ \ {id}]

Subscribe(ids) ==
  \E q \in QueueIdx, id \in ids :
    /\ id \notin LGMP_SUBS_ON(hqs[q].subs)
    /\ hqs' = [hqs EXCEPT ![q] = ClientSubscribe(@, id)]
    /\ call' = Called("subscribe", q)
    /\ result' = NoStatus
    /\ UNCHANGED <<concVars, clock, hostVars, heartbeat, numQueues, queues, leaked, slots,
                   mems, advances, histVars>>

\* a subscriber reads a queue in order: it acknowledges the oldest
\* outstanding message that still waits for it
ClientHead(q, id, s) ==
  LET n == hqs[q].numMessages
      k == RingCount(n, queues[q].start, s)
  IN /\ id \in messages[q][s].pendingSubs
     /\ \A j \in 0 .. (k - 1) :
          id \notin messages[q][CursorAfter(n, queues[q].start, j)].pendingSubs

Ack(ids) ==
  \E q \in QueueIdx, id \in ids :
    \E s \in Outstanding(queues[q], hqs[q]) :
      /\ ClientHead(q, id, s)
      /\ slots' = [slots EXCEPT ![SlotOffset(hqs[q], s)] = ClientAck(@, id)]
      /\ call' = Called("acknowledge", q)
      /\ result' = NoStatus
      /\ UNCHANGED <<concVars, clock, hostVars, heartbeat, numQueues, hqs, queues, leaked,
                     mems, advances, histVars>>

(***************************************************************************)
(* The monotonic clock.                                                    *)
(***************************************************************************)
\* the ids that at time t have left a bit pending for more than 150 ms
Late(q, t) ==
  {id \in SubIds : \E s \in Outstanding(queues[q], hqs[q]) :
     /\ id \in messages[q][s].pendingSubs
     /\ t > postedAt[q][s] + LGMP_MAX_MESSAGE_AGE}

\* the tick reads the clock once (line 146): the steps the clock makes while
\* a tick runs are taken after it
AdvanceClock(deltas, maxAdv) ==
  \E d \in deltas :
    /\ HostIdle
    /\ advances < maxAdv
    /\ clock' = clock + d
    /\ advances' = advances + 1
    /\ missed' = [q \in QueueIdx |-> missed[q] \cup Late(q, clock + d)]
    /\ call' = Called("lgmpGetClockMS", 0)
    /\ result' = NoStatus
    /\ UNCHANGED <<concVars, hostVars, heartbeat, numQueues, hqs, queues, leaked, slots,
                   mems, postedAt, flaggedAt>>

(***************************************************************************)
(* Spec: one queue of capacity MaxCapacity and one payload, created at     *)
(* setup; then posts, ticks, subscribers and the clock in any order, the   *)
(* clock stepping around the maximum message age.                          *)
(***************************************************************************)
Init == InitRegion(RegionSize(MaxCapacity))

\* the payload buffers are allocated at setup
SetupMemAlloc == SetupPhase /\ MemAlloc({PayloadSize}, {TRUE})

Next ==
  \/ AddQueue({MaxCapacity})
  \/ SetupMemAlloc
  \/ Post
  \/ Process(MaxHeartbeat)
  \/ Subscribe(ActiveSubIds)
  \/ Ack(ActiveSubIds)
  \/ AdvanceClock(Deltas, MaxAdvances)

Spec == Init /\ [][Next]_vars

(***************************************************************************)
(* SpecReap: the same host, with the clock stepping past the message age    *)
(* and around the queue timeout: the runs in which a subscriber is flagged  *)
(* and, 10 s later, reaped.                                                 *)
(***************************************************************************)
NextReap ==
  \/ AddQueue({MaxCapacity})
  \/ SetupMemAlloc
  \/ Post
  \/ Process(MaxHeartbeat)
  \/ Subscribe(ActiveSubIds)
  \/ Ack(ActiveSubIds)
  \/ AdvanceClock(ReapDeltas, MaxAdvances)

SpecReap == Init /\ [][NextReap]_vars

(***************************************************************************)
(* SpecStale: a queue one message larger, watched for one tick and one     *)
(* clock step longer, with the subscriber of id 0 alone and the clock      *)
(* stepping past the deadlines only: the runs in which a message outlives  *)
(* the reaping of the subscriber it waits for.                             *)
(***************************************************************************)
StaleCapacity == MaxCapacity + 1
LateDeltas == {LGMP_MAX_MESSAGE_AGE + 1, LGMP_MAX_QUEUE_TIMEOUT + 1}

InitStale == InitRegion(RegionSize(StaleCapacity))

NextStale ==
  \/ AddQueue({StaleCapacity})
  \/ SetupMemAlloc
  \/ Post
  \/ Process(MaxHeartbeat + 1)
  \/ Subscribe({0})
  \/ Ack({0})
  \/ AdvanceClock(LateDeltas, MaxAdvances + 1)

SpecStale == InitStale /\ [][NextStale]_vars

(***************************************************************************)
(* SpecConc: what the subscribers do to a queue while the tick holds its    *)
(* lock is noted, to be compared with the runs in which they do it before   *)
(* or after the critical section.                                           *)
(***************************************************************************)
ConcCapacity == MaxCapacity - 1
InSection == tick.pc \in {"loadPend", "flag", "store", "unlock"}

\* what a subscriber does while the tick holds the lock of its queue is noted
Noted(q, op) ==
  IF InSection /\ tick.i = q
  THEN [sect EXCEPT !.ops = @ \cup {op}]
  ELSE sect

\* a subscriber clears its pending bit with one atomic operation, no lock
ConcAck(ids) ==
  \E q \in QueueIdx, id \in ids :
    \E s \in Outstanding(queues[q], hqs[q]) :
      /\ ClientHead(q, id, s)
      /\ slots' = [slots EXCEPT ![SlotOffset(hqs[q], s)] = ClientAck(@, id)]
      /\ sect' = Noted(q, [kind |-> "ack", id |-> id, slot |-> s])
      /\ call' = Called("acknowledge", q)
      /\ result' = NoStatus
      /\ UNCHANGED <<clock, hostVars, heartbeat, numQueues, hqs, queues, leaked, mems,
                     advances, histVars, tick>>

\* a subscriber sets its subscribed bit with one atomic operation, no lock
ConcSubscribe(ids) ==
  \E q \in QueueIdx, id \in ids :
    /\ id \notin LGMP_SUBS_ON(hqs[q].subs)
    /\ hqs' = [hqs EXCEPT ![q] = ClientSubscribe(@, id)]
    /\ sect' = Noted(q, [kind |-> "subscribe", id |-> id, slot |-> 0])
    /\ call' = Called("subscribe", q)
    /\ result' = NoStatus
    /\ UNCHANGED <<clock, hostVars, heartbeat, numQueues, queues, leaked, slots,
                   mems, advances, histVars, tick>>

InitConc == InitRegion(RegionSize(ConcCapacity))

NextConc ==
  \/ AddQueue({ConcCapacity})
  \/ SetupMemAlloc
  \/ Post
  \/ Process(MaxHeartbeat)
  \/ ConcAck(ActiveSubIds)
  \/ ConcSubscribe(ActiveSubIds)
  \/ AdvanceClock({LGMP_MAX_MESSAGE_AGE + 1}, MaxAdvances - 1)

SpecConc == InitConc /\ [][NextConc]_vars

\* the shared state of a queue: its subscriber word and its slots
Shared(hq, msgs) == [subs |-> hq.subs, msgs |-> msgs]

\* the queue st after the subscriber operations ops
ApplyOps(st, ops) ==
  [st EXCEPT
     !.hq = [@ EXCEPT !.subs = LGMP_SUBS_SET(@,
               {op.id : op \in {o \in ops : o.kind = "subscribe"}})],
     !.msgs = [s \in DOMAIN @ |-> [@[s] EXCEPT !.pendingSubs = @ \
                 {op.id : op \in {o \in ops : o.kind = "ack" /\ o.slot = s}}]]]

\* the queue st after the whole critical section, run at time now: one
\* state for each outcome of the section
RunSection(st, now) ==
  {[hq |-> r.hq, queue |-> r.queue, msgs |-> r.msgs] :
     r \in ProcessQueue(st.hq, st.queue, st.msgs, now)}

\* the shared state at the end of the section is the one of a run in which
\* each of the operations ops ran either before or after the whole section
Linearizable(ops) ==
  \E before \in SUBSET ops :
    \E after \in RunSection(ApplyOps(sect.pre, before), tick.now) :
      LET st == ApplyOps(after, ops \ before)
      IN Shared(st.hq, st.msgs) = Shared(hqs[tick.i], messages[tick.i])

(***************************************************************************)
(* SpecLive: the host's loop keeps running: every frame the clock has      *)
(* moved on by more than the maximum message age and lgmpHostProcess is    *)
(* called, up to LiveBeats times; the subscribers may never acknowledge.   *)
(***************************************************************************)
LiveBeats == MaxHeartbeat + 1

\* a frame of the host's loop begins: the clock has moved on and
\* lgmpHostProcess is entered (lines 145-146)
HostFrame(deltas, maxBeat) ==
  \E d \in deltas :
    /\ tick.pc = "idle"
    /\ handle # NULL
    /\ heartbeat < maxBeat
    /\ clock' = clock + d
    /\ missed' = [q \in QueueIdx |-> missed[q] \cup Late(q, clock + d)]
    /\ heartbeat' = heartbeat + 1
    /\ tick' = [IdleTick EXCEPT !.pc = "queue", !.now = clock + d]
    /\ call' = Called("lgmpHostProcess", 0)
    /\ result' = NoStatus
    /\ UNCHANGED <<hostVars, numQueues, hqs, queues, leaked, slots, mems, advances, postedAt, flaggedAt, sect>>

\* the frame, step by step
LiveFrame ==
  \/ HostFrame(LateDeltas, LiveBeats)
  \/ ProcessStep

NextLive ==
  \/ AddQueue({MaxCapacity})
  \/ SetupMemAlloc
  \/ Post
  \/ Subscribe(0 .. (MaxSubId - 1))
  \/ Ack(0 .. (MaxSubId - 1))
  \/ LiveFrame

SpecLive == Init /\ [][NextLive]_vars /\ WF_vars(LiveFrame)

(***************************************************************************)
(* SpecAlloc: the bump allocator: queues of any capacity up to MaxCapacity *)
(* and payloads, created and freed in any order, between posts and ticks.  *)
(***************************************************************************)
Capacities == 0 .. MaxCapacity
AllocSizes == {0, PayloadSize, RegionSize(MaxCapacity)}

NextAlloc ==
  \/ AddQueue(Capacities)
  \/ MemAlloc(AllocSizes, BOOLEAN)
  \/ MemFree
  \/ Post
  \/ Process(MaxHeartbeat)
  \/ Subscribe({0})

SpecAlloc == Init /\ [][NextAlloc]_vars

(***************************************************************************)
(* SpecPost: queues of any capacity up to MaxCapacity, the capacity 0 too,  *)
(* whose ring is full from the start; a subscriber that may fall behind.   *)
(***************************************************************************)
NextPost ==
  \/ AddQueue(Capacities)
  \/ SetupMemAlloc
  \/ Post
  \/ Process(MaxHeartbeat)
  \/ Subscribe({0})
  \/ Ack({0})
  \/ AdvanceClock(LateDeltas, MaxAdvances)

SpecPost == Init /\ [][NextPost]_vars

(***************************************************************************)
(* SpecQueues: a region with room for one queue more than the maximum,     *)
(* each of the largest capacity, and for the payloads; queues are added    *)
(* until the host refuses.                                                 *)
(***************************************************************************)
QueuesRegionSize ==
  SizeofHeader
    + (LGMP_MAX_QUEUES + 1) * SizeofHeaderMessage * (MaxCapacity + 1)
    + MaxMems * PayloadSize

InitQueues == InitRegion(QueuesRegionSize)

NextQueues ==
  \/ AddQueue(Capacities)
  \/ SetupMemAlloc

SpecQueues == InitQueues /\ [][NextQueues]_vars

(***************************************************************************)
(* SpecInit: a region that holds any sessionID is initialised, used, freed  *)
(* and initialised again; the queue handles of the host structure that a   *)
(* new initialisation leaves behind are still posted through.              *)
(***************************************************************************)
InitSizes == {SizeofHeader - 1, RegionSize(MaxCapacity)}

\* a slot of a region of 0x01 bytes
OnesSlot ==
  [udata |-> 16843009, size |-> 16843009, offset |-> 16843009,
   pendingSubs |-> {0, 8, 16, 24}]

\* the byte offsets of the slots behind the header of a region
SlotOffsets(regionSize) ==
  {SizeofHeader + SizeofHeaderMessage * k :
     k \in 0 .. ((regionSize - SizeofHeader) \div SizeofHeaderMessage - 1)}

\* what the region holds when it is handed to the first lgmpHostInit: zero
\* bytes, or 0x01 bytes
RegionSlots(regionSize) ==
  {<< >>, [o \in SlotOffsets(regionSize) |-> OnesSlot]}

InitAny ==
  /\ \E regionSlots \in RegionSlots(RegionSize(MaxCapacity)) :
       InitHostOn(RegionSize(MaxCapacity), regionSlots)
  /\ \E prior \in PriorIDs, rands \in RandSeqs : InitSession(prior, rands)

NextInit ==
  \/ HostInit(InitSizes, BOOLEAN)
  \/ HostFree
  \/ AddQueue({MaxCapacity})
  \/ SetupMemAlloc
  \/ Subscribe({0})
  \/ Post
  \/ PostLeaked

SpecInit == InitAny /\ [][NextInit]_vars

(***************************************************************************)
(* SpecCapacity: queues of the capacities at both ends of uint32_t are     *)
(* added to a region with room for all of them.                            *)
(***************************************************************************)
EdgeCapacities == Capacities \cup {UINT32_MAX}

NextCapacity ==
  \/ AddQueue(EdgeCapacities)
  \/ SetupMemAlloc

SpecCapacity == InitQueues /\ [][NextCapacity]_vars

(***************************************************************************)
(* SpecEdge: the host's one queue is created for 2^32 - 1 messages: its    *)
(* descriptor has numMessages = 0 and no slot of its own, and posts and    *)
(* ticks run on it as on any queue, the cursors never wrapping.            *)
(***************************************************************************)
EdgeAddQueue == numQueues = 0 /\ AddQueue({UINT32_MAX})

NextEdge ==
  \/ EdgeAddQueue
  \/ SetupMemAlloc
  \/ Post
  \/ Process(MaxHeartbeat)
  \/ Subscribe({0})
  \/ Ack({0})
  \/ AdvanceClock(LateDeltas, MaxAdvances)

SpecEdge == Init /\ [][NextEdge]_vars

(***************************************************************************)
(* Properties.                                                             *)
(***************************************************************************)
\* the step in which the tick passes over queue q, which holds no message
IsSkip(q) ==
  tick.pc = "queue" /\ tick.i = q /\ tick'.pc = "queue" /\ tick'.i = q + 1

\* the step in which the tick, having loaded the subscriber word and the
\* head's pending mask of queue q, flags and force-clears, or does not
IsFlag(q) == tick.pc = "flag" /\ tick.i = q /\ tick'.pc = "store"

\* the step in which the tick completes the head of queue q, or does not,
\* reaps, and stores the subscriber word
IsStore(q) == tick.pc = "store" /\ tick.i = q /\ tick'.pc = "unlock"

\* the subscribers the tick found pending on the head and not bad
TickLagging == tick.pend \ LGMP_SUBS_BAD(tick.subs)

On(q) == LGMP_SUBS_ON(hqs[q].subs)
Bad(q) == LGMP_SUBS_BAD(hqs[q].subs)
HeadMsg(q) == messages[q][queues[q].start]
NextSlot(q, s) == NextCursor(hqs[q].numMessages, s)

\* what one step may do to the allocator
C10_Step ==
  /\ nextFree' + avail' = size'
  /\ size' = size
  /\ IF numQueues' # numQueues
     THEN /\ result' = LGMP_OK
          /\ nextFree' - nextFree = SizeofHeaderMessage * hqs'[numQueues].numMessages
          /\ avail - avail' = SizeofHeaderMessage * hqs'[numQueues].numMessages
          /\ hqs'[numQueues].messagesOffset = nextFree
     ELSE IF Len(mems') > Len(mems)
     THEN /\ result' = LGMP_OK
          /\ nextFree' - nextFree = mems'[Len(mems')].size
          /\ avail - avail' = mems'[Len(mems')].size
          /\ mems'[Len(mems')].offset = nextFree
     ELSE nextFree' = nextFree /\ avail' = avail

\* C10: nextFree + avail is the region size after initialisation and after
\* every step; a successful addQueue or allocatePayload moves both by the
\* bytes it reserves, and no other step (a failed call, post, tick, free)
\* changes either.
C10_RegionAccounting ==
  /\ nextFree + avail = size
  /\ [][C10_Step]_vars

\* queues and a payload were carved out, a message was posted and a tick run, and
\* the last call failed for lack of region space
C10_Witness ==
  /\ numQueues > 1
  /\ Len(mems) > 0
  /\ nextFree > SizeofHeader + PayloadSize
  /\ heartbeat > 0
  /\ \E q \in QueueIdx : queues[q].count > 0
  /\ result = LGMP_ERR_NO_SHARED_MEM

\* C1: a maintenance tick run at a time later than the reap deadline of a
\* subscriber that is flagged bad clears that subscriber's bit from both the
\* subscribed and the bad mask, whatever the queue's outstanding count.
C1_TickAfterDeadlineReaps ==
  [][\A q \in QueueIdx, id \in SubIds :
       ((IsSkip(q) \/ IsStore(q)) /\ id \in Bad(q)
          /\ tick.now > queues[q].timeout[id])
         => (id \notin On(q)' /\ id \notin Bad(q)')]_vars

\* C2: in every reachable state of every queue the bad mask is a subset of
\* the subscribed mask.
C2_BadSubsetOfSubscribed ==
  \A q \in QueueIdx : Bad(q) \subseteq On(q)

\* C3: whatever the subscribers do to a queue without the lock
\* while the tick is in the critical section, clearing a pending bit or
\* setting a subscribed bit, the shared state after the section is that of a
\* run in which each of these operations ran before or after the section.
C3_SubscriberOpsLinearize ==
  tick.pc = "unlock" => Linearizable(sect.ops)

\* the part of C3 that the code keeps: the lock-free clearing of pending bits
\* cannot interleave destructively with the critical section.
C3_AckLinearizes ==
  (tick.pc = "unlock" /\ \A op \in sect.ops : op.kind = "ack")
    => Linearizable(sect.ops)

\* a subscriber cleared its bit on the head inside a critical section that
\* flagged a subscriber bad
C3_AckInSection ==
  /\ tick.pc = "unlock"
  /\ \E op \in sect.ops :
       /\ op.kind = "ack"
       /\ op.slot = sect.pre.queue.start
       /\ op.id \in sect.pre.msgs[op.slot].pendingSubs
  /\ LGMP_SUBS_BAD(hqs[tick.i].subs) # LGMP_SUBS_BAD(sect.pre.hq.subs)

\* C4: a tick later than the head's expiry deadline, with a subscriber that
\* is not yet bad still pending on the head, flags exactly the pending and
\* not yet bad subscribers, sets their reap deadline to now + 10 s, clears the
\* head's pending mask and completes the head.  The pending mask and the bad
\* mask are the ones the tick loads (lines 163-164); the flagging and the
\* force-clear are the step of lines 165-183, the completion the step of
\* lines 185-208.
C4_ExpiredHeadIsForced ==
  [][\A q \in QueueIdx :
       /\ (IsFlag(q) /\ tick.now > queues[q].msgTimeout /\ TickLagging # {})
            => /\ tick'.newBadSubs = TickLagging
               /\ LGMP_SUBS_BAD(tick'.subs) = LGMP_SUBS_BAD(tick.subs) \cup TickLagging
               /\ LGMP_SUBS_ON(tick'.subs) = LGMP_SUBS_ON(tick.subs)
               /\ \A id \in TickLagging :
                    /\ queues'[q].timeout[id] = tick.now + LGMP_MAX_QUEUE_TIMEOUT
                    /\ flaggedAt'[q][id] = tick.now
               /\ \A id \in SubIds \ TickLagging :
                    /\ queues'[q].timeout[id] = queues[q].timeout[id]
                    /\ flaggedAt'[q][id] = flaggedAt[q][id]
               /\ messages'[q][queues[q].start].pendingSubs = {}
               /\ tick'.pend = {}
       /\ (IsStore(q) /\ tick.newBadSubs # {})
            => /\ Bad(q)' \ Bad(q) = tick.newBadSubs
               /\ messages'[q][queues[q].start].pendingSubs = {}
               /\ queues'[q].start = NextSlot(q, queues[q].start)
               /\ queues'[q].count = queues[q].count - 1]_vars

\* a subscriber has just been flagged while another one, which had
\* acknowledged, was not
C4_Witness ==
  \E q \in QueueIdx, id \in SubIds :
    /\ heartbeat > 0
    /\ id \in Bad(q)
    /\ flaggedAt[q][id] = clock
    /\ queues[q].timeout[id] = clock + LGMP_MAX_QUEUE_TIMEOUT
    /\ On(q) \ Bad(q) # {}
    /\ queues[q].count = 0

\* when the head of queue q became the head
C5_HeadSince(q) == queues[q].msgTimeout - LGMP_MAX_MESSAGE_AGE

\* a tick run more than 150 ms after the head became the head completes it
C5_TickCompletesExpiredHead ==
  \A q \in QueueIdx :
    (IsStore(q) /\ tick.now > C5_HeadSince(q) + LGMP_MAX_MESSAGE_AGE)
      => /\ queues'[q].count = queues[q].count - 1
         /\ queues'[q].start = NextSlot(q, queues[q].start)
         /\ queues'[q].count # 0 => C5_HeadSince(q)' = tick.now

C5_Outstanding(s) ==
  numQueues > 0 /\ s \in Outstanding(queues[0], hqs[0])

C5_FramesLeft(s) ==
  heartbeat + RingCount(hqs[0].numMessages, queues[0].start, s) + 1 <= LiveBeats

\* C5: completion is forced.  A tick run after the head's deadline, that is
\* more than 150 ms after the message became head, completes the head
\* whatever its pending mask; and while the host keeps ticking with the
\* clock advancing, every outstanding message leaves the outstanding window
\* (a message with k messages before it within k + 1 frames), even if no
\* subscriber clears a bit.
C5_CompletionIsForced ==
  /\ [][C5_TickCompletesExpiredHead]_vars
  /\ \A s \in 0 .. MaxCapacity :
       (C5_Outstanding(s) /\ C5_FramesLeft(s)) ~> ~C5_Outstanding(s)

\* the queue was full of unacknowledged messages and is empty again, every
\* subscriber flagged, none having cleared a bit
C5_Witness ==
  /\ numQueues > 0
  /\ queues[0].count = 0
  /\ queues[0].start = MaxCapacity
  /\ heartbeat = MaxCapacity
  /\ On(0) # {}
  /\ Bad(0) = On(0)
  /\ \A s \in 0 .. (MaxCapacity - 1) : postedAt[0][s] = 1

\* C6: a subscriber that clears each of its pending bits within 150 ms of the
\* message being posted is never flagged bad: every flagged subscriber has
\* left a bit pending for more than 150 ms.
C6_CompliantNeverFlagged ==
  \A q \in QueueIdx : Bad(q) \subseteq missed[q]

\* a subscriber was flagged while another one of the same queue never missed a
\* deadline although it was sent messages
C6_Witness ==
  \E q \in QueueIdx, id \in SubIds :
    /\ Bad(q) # {}
    /\ id \in On(q) \ missed[q]
    /\ heartbeat > 0
    /\ \E s \in DOMAIN messages[q] : postedAt[q][s] > 1

\* what one step may do to the ring of queue q
C7_Fifo(q) ==
  LET queue == queues[q]
      n == hqs[q].numMessages
  IN /\ queues'[q].position # queue.position
          => /\ queues'[q].position = NextSlot(q, queue.position)
             /\ queues'[q].start = queue.start
             /\ queues'[q].count = queue.count + 1
             /\ postedAt'[q][queue.position] = clock
             /\ \A s \in DOMAIN messages[q] \ {queue.position} :
                  messages'[q][s] = messages[q][s]
     /\ queues'[q].start # queue.start
          => /\ queues'[q].start = NextSlot(q, queue.start)
             /\ queues'[q].position = queue.position
             /\ queues'[q].count = queue.count - 1
             /\ queue.count > 0
     /\ queues'[q].count = RingCount(n, queues'[q].start, queues'[q].position)
     /\ \A k \in 1 .. (queues'[q].count - 1) :
          postedAt'[q][CursorAfter(n, queues'[q].start, k - 1)]
            <= postedAt'[q][CursorAfter(n, queues'[q].start, k)]

\* C7: a queue is first in, first out: post writes the slot at the write
\* cursor and moves the cursor one slot on, circularly from slot 0; the tick
\* completes the slot at the read cursor only, and moves it one slot on; the
\* outstanding messages are the slots from the read to the write cursor, the
\* older the nearer to the read cursor, so that a message is never completed
\* while one posted before it is outstanding.
C7_PostOrder ==
  [][/\ \A q \in QueueIdx : C7_Fifo(q)
     /\ \A q \in QueueIdx' \ QueueIdx :
          queues'[q].start = 0 /\ queues'[q].position = 0 /\ queues'[q].count = 0]_vars

\* two messages are outstanding and the read cursor has already moved
C7_Witness ==
  \E q \in QueueIdx :
    /\ queues[q].count = 2
    /\ queues[q].start # 0
    /\ queues[q].position < queues[q].start

\* C8: a flagged subscriber keeps its bad and its subscribed bit until a tick
\* whose time is strictly greater than the deadline recorded when it was
\* flagged, which is the time of the flagging tick plus 10 s.
C8_RetainedUntilDeadline ==
  [][\A q \in QueueIdx, id \in SubIds :
       /\ id \in Bad(q)'
            => queues'[q].timeout[id] = flaggedAt'[q][id] + LGMP_MAX_QUEUE_TIMEOUT
       /\ (id \in Bad(q) /\ (id \notin Bad(q)' \/ (id \in On(q) /\ id \notin On(q)')))
            => /\ IsStore(q)
               /\ tick.now > queues[q].timeout[id]
               /\ tick.now > flaggedAt[q][id] + LGMP_MAX_QUEUE_TIMEOUT]_vars

\* a subscriber was flagged and has been reaped
C8_Witness ==
  \E q \in QueueIdx, id \in SubIds :
    /\ flaggedAt[q][id] > 0
    /\ clock > flaggedAt[q][id] + LGMP_MAX_QUEUE_TIMEOUT
    /\ id \notin On(q)
    /\ id \notin Bad(q)

\* C9: the pending mask of a message written by post is the subscribed mask
\* without the bad mask, as the subscriber word stands at that post, and post
\* leaves the subscriber word alone; the subscribed bit of a bad subscriber
\* stays set until the tick that reaps it.
C9_BadExcludedFromRecipients ==
  [][\A q \in QueueIdx :
       /\ queues'[q].position # queues[q].position
            => /\ messages'[q][queues[q].position].pendingSubs = On(q) \ Bad(q)
               /\ messages'[q][queues[q].position].pendingSubs \cap Bad(q) = {}
               /\ hqs'[q].subs = hqs[q].subs
       /\ \A id \in Bad(q) \cap On(q) :
            id \notin On(q)' => (IsStore(q) /\ id \notin Bad(q)')]_vars

\* a message was posted while a subscriber was bad and still subscribed, and
\* it does not wait for that subscriber
C9_Witness ==
  \E q \in QueueIdx, id \in SubIds :
    /\ id \in Bad(q) \cap On(q)
    /\ \E s \in Outstanding(queues[q], hqs[q]) :
         /\ postedAt[q][s] >= flaggedAt[q][id]
         /\ messages[q][s].pendingSubs # {}
         /\ id \notin messages[q][s].pendingSubs

\* the recipients of a message posted to queue q now
Live(q) == On(q) \ Bad(q)

\* what the ring of a queue of requested capacity n does on a post to live
\* subscribers: the message is taken while fewer than n are outstanding
C11_RingStep(q, n) ==
  (PostOn(q) /\ Live(q) # {})
    => IF queues[q].count < n
       THEN /\ queues'[q].count = queues[q].count + 1
            /\ messages'[q][queues[q].position].pendingSubs = Live(q)
       ELSE /\ queues'[q].count = queues[q].count
            /\ result' = LGMP_ERR_QUEUE_FULL

\* the part of C11 that the code keeps: the ring takes exactly the requested
\* number of messages, whatever status the accepted posts report.
C11_RingHoldsCapacity ==
  /\ [](\A q \in QueueIdx : queues[q].count <= MaxCapacity)
  /\ [][\A q \in QueueIdx : C11_RingStep(q, MaxCapacity)]_vars

\* C11: a queue created with requested capacity N holds exactly N
\* outstanding messages: with a live subscriber, a post made while fewer than
\* N messages are outstanding (the first N posts, and the post after a tick
\* completed the head) succeeds, and a post made while N are outstanding
\* returns the queue-full error.
C11_CapacityIsExact ==
  /\ [](\A q \in QueueIdx : queues[q].count <= MaxCapacity)
  /\ [][\A q \in QueueIdx :
         /\ C11_RingStep(q, MaxCapacity)
         /\ (PostOn(q) /\ Live(q) # {} /\ queues[q].count < MaxCapacity)
              => result' = LGMP_OK]_vars

\* the queue was full, a post was refused, a tick completed the head and the
\* post after it was taken
C11_PostAfterCompletion ==
  \E q \in QueueIdx :
    /\ call = Called("lgmpHostPost", q)
    /\ queues[q].count = MaxCapacity
    /\ queues[q].start = 1
    /\ queues[q].position = 0
    /\ heartbeat > 0

\* C12: post on a queue whose outstanding count equals numMessages - 1, with
\* a non-empty recipient set, returns the queue-full error and leaves the
\* outstanding count, the host-local and the shared write cursor, the read
\* cursor, the head's expiry deadline and every slot unchanged.
C12_FullPostRefused ==
  [][\A q \in QueueIdx :
       (PostOn(q) /\ Live(q) # {} /\ queues[q].count = hqs[q].numMessages - 1)
         => /\ result' = LGMP_ERR_QUEUE_FULL
            /\ queues'[q].count = queues[q].count
            /\ queues'[q].position = queues[q].position
            /\ hqs'[q].position = hqs[q].position
            /\ queues'[q].start = queues[q].start
            /\ queues'[q].msgTimeout = queues[q].msgTimeout
            /\ messages'[q] = messages[q]
            /\ queues'[q] = queues[q]
            /\ hqs'[q] = hqs[q]]_vars

\* a post to a live subscriber was refused by a full ring whose cursors have
\* wrapped
C12_Witness ==
  \E q \in QueueIdx :
    /\ call = Called("lgmpHostPost", q)
    /\ result = LGMP_ERR_QUEUE_FULL
    /\ Live(q) # {}
    /\ queues[q].count = hqs[q].numMessages - 1
    /\ queues[q].start # 0
    /\ hqs[q].position = queues[q].position

\* C13: post on a queue whose recipient set (subscribed and not bad) is
\* empty, be the subscribed mask empty, every subscriber bad, or the ring
\* already full, returns success and changes nothing: the outstanding count,
\* the host-local and the shared write cursor, the head's expiry deadline
\* and every slot stay as they are.
C13_NoRecipientsNoOp ==
  [][\A q \in QueueIdx :
       (PostOn(q) /\ On(q) \ Bad(q) = {})
         => /\ result' = LGMP_OK
            /\ queues'[q].count = queues[q].count
            /\ queues'[q].position = queues[q].position
            /\ hqs'[q].position = hqs[q].position
            /\ queues'[q].msgTimeout = queues[q].msgTimeout
            /\ messages'[q] = messages[q]
            /\ queues'[q] = queues[q]
            /\ hqs'[q] = hqs[q]]_vars

\* a post was made to a queue that holds a message and whose only subscriber
\* is bad
C13_Witness ==
  \E q \in QueueIdx :
    /\ call = Called("lgmpHostPost", q)
    /\ result = LGMP_OK
    /\ On(q) # {}
    /\ Live(q) = {}
    /\ queues[q].count > 0

\* a post was made to a queue of capacity 0, whose ring is full, and which
\* nobody has subscribed to
C13_FullRingCase ==
  \E q \in QueueIdx :
    /\ call = Called("lgmpHostPost", q)
    /\ result = LGMP_OK
    /\ On(q) = {}
    /\ queues[q].count = hqs[q].numMessages - 1

\* C14: a tick run not later than the head's expiry deadline, while a
\* subscriber that is not bad is still pending on the head, leaves the
\* delivery alone: the read cursor, the outstanding count and the head's
\* pending mask are unchanged and no subscriber is newly flagged bad.  The
\* pending mask and the bad mask are the ones the tick loads (lines 163-164).
C14_EarlyTickKeepsHead ==
  [][\A q \in QueueIdx :
       /\ (IsFlag(q) /\ tick.now <= queues[q].msgTimeout /\ TickLagging # {})
            => /\ messages'[q] = messages[q]
               /\ queues'[q] = queues[q]
               /\ flaggedAt'[q] = flaggedAt[q]
               /\ tick'.subs = tick.subs
               /\ tick'.pend = tick.pend
               /\ tick'.newBadSubs = {}
       /\ (IsStore(q) /\ tick.now <= queues[q].msgTimeout /\ TickLagging # {})
            => /\ queues'[q].start = queues[q].start
               /\ queues'[q].count = queues[q].count
               /\ queues'[q].position = queues[q].position
               /\ messages'[q] = messages[q]
               /\ Bad(q)' \subseteq Bad(q)
               /\ flaggedAt'[q] = flaggedAt[q]]_vars

\* the tick has just run exactly at the deadline of a head that was posted
\* 150 ms before and still waits for a subscriber that is not bad
C14_Witness ==
  \E q \in QueueIdx :
    /\ call = Called("lgmpHostProcess", 0)
    /\ tick.pc = "idle"
    /\ queues[q].count # 0
    /\ clock = queues[q].msgTimeout
    /\ postedAt[q][queues[q].start] + LGMP_MAX_MESSAGE_AGE = clock
    /\ HeadMsg(q).pendingSubs \ Bad(q) # {}

\* C15: with the host not started and enough region space, addQueue
\* succeeds while fewer than LGMP_MAX_QUEUES queues exist, each call adding
\* one to the shared queue count, and the call made with LGMP_MAX_QUEUES
\* queues returns the queue-limit error and leaves the queue count, nextFree
\* and avail unchanged; the queue count never exceeds LGMP_MAX_QUEUES.
C15_QueueLimit ==
  /\ [](numQueues <= LGMP_MAX_QUEUES)
  /\ [][(AddQueue(Capacities) /\ ~started
           /\ avail >= SizeofHeaderMessage * (MaxCapacity + 1))
         => IF numQueues < LGMP_MAX_QUEUES
            THEN /\ result' = LGMP_OK
                 /\ numQueues' = numQueues + 1
                 /\ DOMAIN hqs' = 0 .. numQueues
            ELSE /\ result' = LGMP_ERR_NO_QUEUES
                 /\ numQueues' = numQueues
                 /\ nextFree' = nextFree
                 /\ avail' = avail
                 /\ hqs' = hqs /\ queues' = queues]_vars

\* LGMP_MAX_QUEUES queues exist, the region has room for one more, and the
\* call that has just returned was refused for the limit
C15_Witness ==
  /\ call = Called("lgmpHostAddQueue", LGMP_MAX_QUEUES)
  /\ result = LGMP_ERR_NO_QUEUES
  /\ numQueues = LGMP_MAX_QUEUES
  /\ ~started
  /\ avail >= SizeofHeaderMessage * (MaxCapacity + 1)

\* C16: after every successful initialisation the sessionID in the header
\* differs from the one the region held before the call, whatever that was,
\* the first time and at every re-initialisation of the same region.
C16_SessionChanges ==
  /\ [](sessionID # initHist.prior)
  /\ [][(HostInit(InitSizes, BOOLEAN) /\ result' = LGMP_OK)
         => (sessionID' # sessionID /\ initHist'.prior = sessionID)]_vars

\* the region was initialised again, after queues had been added, and rand()
\* first returned the sessionID the region held
C16_Witness ==
  /\ call = Called("lgmpHostInit", 0)
  /\ result = LGMP_OK
  /\ numQueues = 0
  /\ initHist.numQueues > 0
  /\ Len(initHist.rands) > 1
  /\ initHist.rands[1] = initHist.prior
  /\ initHist.prior # 0

\* C17: the read cursor moves past a message only when the pending mask in
\* its slot is zero: a tick that completes the head leaves a zero pending
\* mask in the head's slot, so that no slot outside the outstanding window
\* holds a pending bit.
C17_CompletedSlotsAreClear ==
  /\ [](\A q \in QueueIdx :
         \A s \in DOMAIN messages[q] \ Outstanding(queues[q], hqs[q]) :
           messages[q][s].pendingSubs = {})
  /\ [][\A q \in QueueIdx :
         (IsStore(q) /\ queues'[q].start # queues[q].start)
           => messages'[q][queues[q].start].pendingSubs = {}]_vars

\* the tick has just completed a message whose slot still holds the bit of a
\* subscriber flagged bad on an earlier message
C17_StalePendingBit ==
  \E q \in QueueIdx :
    \E s \in DOMAIN messages[q] \ Outstanding(queues[q], hqs[q]) :
      /\ call = Called("lgmpHostProcess", 0)
      /\ messages[q][s].pendingSubs # {}
      /\ messages[q][s].pendingSubs \subseteq Bad(q)

\* n, a 32-bit pattern read as unsigned, is at least 2
AtLeastTwo(n) == n \notin {0, 1}

\* C18: every queue descriptor created by a successful addQueue has a slot
\* capacity numMessages of at least 2, equal to the requested capacity plus
\* one modulo 2^32, for every requested capacity, 0 and 2^32 - 1 included,
\* and the bytes reserved for its slots are the slot size times numMessages.
C18_CapacityAtLeastTwo ==
  /\ [](\A q \in QueueIdx : AtLeastTwo(hqs[q].numMessages))
  /\ [][\A queueID \in QueueIDs, cap \in EdgeCapacities :
         (AddQueueFor(queueID, cap) /\ result' = LGMP_OK)
           => /\ numQueues' = numQueues + 1
              /\ AtLeastTwo(hqs'[numQueues].numMessages)
              /\ hqs'[numQueues].numMessages = cap + 1
              /\ nextFree' - nextFree
                   = SizeofHeaderMessage * hqs'[numQueues].numMessages
              /\ avail - avail'
                   = SizeofHeaderMessage * hqs'[numQueues].numMessages]_vars

\* the part of C18 that the code keeps: the capacity is the requested one plus
\* one modulo 2^32 and the bytes reserved are the slot size times it.
C18_CapacityIsRequestedPlusOne ==
  [][\A queueID \in QueueIDs, cap \in EdgeCapacities :
       (AddQueueFor(queueID, cap) /\ result' = LGMP_OK)
         => /\ numQueues' = numQueues + 1
            /\ hqs'[numQueues].numMessages = cap + 1
            /\ nextFree' - nextFree
                 = SizeofHeaderMessage * hqs'[numQueues].numMessages
            /\ avail - avail'
                 = SizeofHeaderMessage * hqs'[numQueues].numMessages]_vars

\* addQueue has just succeeded for 2^32 - 1 messages, after a queue of
\* capacity 0: a descriptor without any slot next to one with the sentinel only
C18_NoSlotAtAll ==
  \E q \in QueueIdx, p \in QueueIdx :
    /\ call = Called("lgmpHostAddQueue", q)
    /\ result = LGMP_OK
    /\ hqs[q].numMessages = 0
    /\ hqs[p].numMessages = 1
    /\ hqs[p].messagesOffset = hqs[q].messagesOffset - SizeofHeaderMessage

\* the ring of queue q is consistent
C19_Ring(q) ==
  LET queue == queues[q]
      n == hqs[q].numMessages
  IN /\ 0 <= queue.count /\ queue.count <= n - 1
     /\ 0 <= queue.start /\ queue.start <= n - 1
     /\ 0 <= queue.position /\ queue.position <= n - 1
     /\ queue.count = (queue.position - queue.start) % n
     /\ hqs[q].position = queue.position

\* C19: in every state reached by posts and ticks, for every queue, the
\* outstanding count is within 0 .. numMessages - 1, both cursors are within
\* 0 .. numMessages - 1, the count is (write cursor - read cursor) modulo
\* numMessages, and the shared write cursor is the host-local one; the count
\* never underflows and post never writes the slot of an outstanding message.
C19_RingConsistency ==
  /\ [](\A q \in QueueIdx : C19_Ring(q))
  /\ [][\A q \in QueueIdx :
         /\ queues'[q].count >= queues[q].count - 1
         /\ queues'[q].count < queues[q].count => queues[q].count > 0
         /\ \A s \in DOMAIN messages[q] :
              (PostOn(q) /\ messages'[q][s] # messages[q][s])
                => s \notin Outstanding(queues[q], hqs[q])]_vars

\* the part of C19 that the code keeps: the ring of every queue that has a
\* slot, the sentinel at least, is consistent.
C19_RingWithSlotsConsistent ==
  /\ [](\A q \in QueueIdx : hqs[q].numMessages # 0 => C19_Ring(q))
  /\ [][\A q \in QueueIdx :
         hqs[q].numMessages # 0
           => /\ queues'[q].count >= queues[q].count - 1
              /\ queues'[q].count < queues[q].count => queues[q].count > 0
              /\ \A s \in DOMAIN messages[q] :
                   (PostOn(q) /\ messages'[q][s] # messages[q][s])
                     => s \notin Outstanding(queues[q], hqs[q])]_vars

\* two messages were posted to a queue created for 2^32 - 1 messages: the
\* count and the write cursor are 2 with numMessages = 0
C19_CursorPastRing ==
  \E q \in QueueIdx :
    /\ call = Called("lgmpHostPost", q)
    /\ hqs[q].numMessages = 0
    /\ queues[q].count = 2
    /\ queues[q].position = 2
    /\ hqs[q].position = 2

\* the ring is full again after its cursors have wrapped: a post has just
\* written the last free slot, behind the read cursor
C19_Witness ==
  \E q \in QueueIdx :
    /\ call = Called("lgmpHostPost", q)
    /\ heartbeat > 0
    /\ hqs[q].numMessages > 2
    /\ queues[q].count = hqs[q].numMessages - 1
    /\ queues[q].position < queues[q].start

\* the bytes of the slot array of queue q, and of the payload of handle m
C20_QueueRange(q) ==
  Range("queue", hqs[q].messagesOffset,
        hqs[q].messagesOffset + SizeofHeaderMessage * hqs[q].numMessages)

C20_PayloadRange(m) ==
  Range("payload", mems[m].offset, mems[m].offset + mems[m].size)

\* the ranges handed out so far are where the claim says
C20_Ranges ==
  /\ \A q \in QueueIdx : \E i \in DOMAIN carved : carved[i] = C20_QueueRange(q)
  /\ \A m \in DOMAIN mems : \E i \in DOMAIN carved : carved[i] = C20_PayloadRange(m)
  /\ \A i \in DOMAIN carved :
       /\ SizeofHeader <= carved[i].lo
       /\ carved[i].lo <= carved[i].hi
       /\ carved[i].hi <= size
       /\ carved[i].hi <= nextFree
  /\ \A i, j \in DOMAIN carved :
       i < j => (carved[i].lo <= carved[j].lo /\ carved[i].hi <= carved[j].lo)

\* no step moves the free offset back or changes a range handed out, and a
\* free leaves the allocator alone
C20_Step ==
  /\ nextFree' >= nextFree
  /\ Len(carved') >= Len(carved)
  /\ \A i \in DOMAIN carved : carved'[i] = carved[i]
  /\ Len(mems') < Len(mems)
       => (nextFree' = nextFree /\ avail' = avail /\ carved' = carved /\ hqs' = hqs)

\* C20: the byte ranges handed out by the successful calls of addQueue and
\* allocatePayload, the freed payloads' too, lie behind the header and inside
\* the region, are pairwise disjoint and are assigned at non-decreasing
\* offsets; freeing a handle changes no range and no later allocation
\* reuses or overlaps an earlier range.
C20_RangesDisjoint ==
  /\ []C20_Ranges
  /\ [][C20_Step]_vars

\* two queues exist and a payload has just been allocated, after an earlier
\* payload, which lies before the first queue, had been freed
C20_Witness ==
  /\ call = Called("lgmpHostMemAlloc", 0)
  /\ result = LGMP_OK
  /\ numQueues > 1
  /\ Len(mems) = 1
  /\ mems[1].size > 0
  /\ \E i \in Allocs :
       /\ carved[i].hi > carved[i].lo
       /\ carved[i].hi <= hqs[0].messagesOffset
       /\ carved[i].hi <= mems[1].offset

====
